---- MODULE Spec2Model ----
(***************************************************************************)
(* my-ambilight: the udp-leds wire codec (client.rs, server.rs) and the    *)
(* receive loop of wifi-ambilight-server (main.rs, leds.rs).               *)
(*                                                                         *)
(* Byte arrays are sequences; At(s, i) reads the Rust index i (0-based).   *)
(* A Rust panic is modelled as an explicit outcome: "Panic" results in the *)
(* codec, rpc = "panicked" in the receive loop.                            *)
(***************************************************************************)
EXTENDS Integers, Sequences, FiniteSets, TLC

VARIABLES
    active,     \* main.rs: `let mut active: u8`
    pixels,     \* leds.rs: Leds.pixels, the [u8; L * 3] behind the mutex
    buf,        \* main.rs: &buf[..size], the datagram of the current iteration
    outbox,     \* datagrams passed to udp.send_to during the current iteration
    rpc,        \* receive loop: "recv" (blocked in recv_from) or "panicked"
    lastSet,    \* history: device bits of the last SetActive datagram received
    lock,       \* leds.rs: the Mutex around pixels: "free", "rx" or "tx"
    ri,         \* Leds::set: bytes copied so far by copy_from_slice
    tpc,        \* led_update_loop: "signal", "encode", "transmit" or "sleep"
    ti,         \* to_rmt_signal: bytes of pixels encoded so far
    signal,     \* to_rmt_signal: the FixedLengthSignal being built, then sent
    lastWrite,  \* history: the buffer as the last completed Leds::set left it
    snap,       \* history: lastWrite when to_rmt_signal took the lock
    pending,    \* history: completed writes since that moment, counted to 2
    coalesced,  \* history: the value of pending when the lock was taken
    cpc,        \* codec harness: "idle", "built", "encoded", "decoded", "sliced",
                \* "reply"
    call,       \* codec harness: the constructor call and its arguments
    msg,        \* codec harness: the message a constructor returned
    wire,       \* codec harness: the bytes given to try_from
    res         \* codec harness: what try_from returned

vars ==
    <<active, pixels, buf, outbox, rpc, lastSet, lock, ri, tpc, ti, signal,
      lastWrite, snap, pending, coalesced, cpc, call, msg, wire, res>>
txVars == <<lock, ri, tpc, ti, signal, lastWrite, snap, pending, coalesced>>
serverVars == <<active, pixels, buf, outbox, rpc, lastSet, txVars>>
codecVars == <<cpc, call, msg, wire, res>>

----
(* Bounds of the model. *)

\* constants.rs:1 sets MAX_LED_COUNT to 256; the model keeps every size
\* derived from it and scales the count itself.
MAX_LED_COUNT == 2
\* main.rs:75 makes the receive buffer 10 bytes longer than the longest
\* message (780 against 770); the model keeps a buffer longer than the
\* longest message by BUF_SLACK bytes.
BUF_SLACK == 1

----
(* u8 arithmetic *)

RECURSIVE BitAndN(_, _, _)
BitAndN(a, b, n) ==
    IF n = 0 THEN 0
    ELSE (IF a % 2 = 1 /\ b % 2 = 1 THEN 1 ELSE 0)
         + 2 * BitAndN(a \div 2, b \div 2, n - 1)

RECURSIVE BitOrN(_, _, _)
BitOrN(a, b, n) ==
    IF n = 0 THEN 0
    ELSE (IF a % 2 = 1 \/ b % 2 = 1 THEN 1 ELSE 0)
         + 2 * BitOrN(a \div 2, b \div 2, n - 1)

BitAnd(a, b) == BitAndN(a, b, 8)
BitOr(a, b) == BitOrN(a, b, 8)

At(s, i) == s[i + 1]
Zeros(n) == [i \in 1..n |-> 0]

----
(* udp-leds/src/constants.rs *)

MAX_MESSAGE_LENGTH == MAX_LED_COUNT * 3 + 2
SERVER_FLAG == 230
CLIENT_FLAG == 107
INSTRUCTION_MASK == 192
DEVICE_MASK == 63
INSTRUCTION_HELLO == 192
INSTRUCTION_SET_ACTIVE == 64
INSTRUCTION_SEND_PIXELS == 0
INSTRUCTION_SET_PIXEL == 128

(* wifi-ambilight-server/src/main.rs *)

CLIENT_FLAG_BYTE == 107
SERVER_FLAG_BYTE == 230
DEVICE_ID_MASK == 63
BUF_SIZE == MAX_MESSAGE_LENGTH + BUF_SLACK

\* Mutant of ACTIVE_INIT: the sentinel stored through the device mask.
ActiveInitMasked == BitAnd(255, DEVICE_ID_MASK)
\* `let mut active: u8 = 255;`
ACTIVE_INIT == 255

\* crate::constants::LED_COUNT of the server (main.rs:53); the strip has
\* MAX_LED_COUNT LEDs.
LED_COUNT == MAX_LED_COUNT

----
(* udp-leds/src/client.rs and server.rs: the messages *)

Hello == [type |-> "Hello"]
SetActive(device) == [type |-> "SetActive", device |-> device]
SendPixels(device, px) ==
    [type |-> "SendPixels", device |-> device, pixels |-> px]
SetPixel(device, pixel, r, g, b) ==
    [type |-> "SetPixel", device |-> device, pixel |-> pixel,
     r |-> r, g |-> g, b |-> b]
ServerHello == [type |-> "ServerHello"]

\* Result<_, Error>, and a panic as a third outcome.
Ok(m) == [tag |-> "Ok", msg |-> m]
Err(e) == [tag |-> "Err", err |-> e]
Panic == [tag |-> "Panic"]

\* `assert!(device < DEVICE_MASK, ...)` of the three constructors
DeviceAccepted(device) == device < DEVICE_MASK

hello == Ok(Hello)
set_active(device) ==
    IF DeviceAccepted(device) THEN Ok(SetActive(device)) ELSE Panic
send_pixels(device, px) ==
    IF DeviceAccepted(device) THEN Ok(SendPixels(device, px)) ELSE Panic
set_pixel(device, pixel, r, g, b) ==
    IF DeviceAccepted(device) THEN Ok(SetPixel(device, pixel, r, g, b))
    ELSE Panic
server_hello == Ok(ServerHello)

----
(* impl TryFrom<&[u8]> for ClientMessages *)

\* Mutant of InvalidLength: `>=` written for `>`.
InvalidLengthOffByOne(value) ==
    Len(value) < 2 \/ Len(value) >= MAX_MESSAGE_LENGTH

\* `if value.len() < 2 || value.len() > MAX_MESSAGE_LENGTH`
InvalidLength(value) == Len(value) < 2 \/ Len(value) > MAX_MESSAGE_LENGTH

\* Mutant of InvalidFlag: the flag of the other direction is expected.
InvalidFlagServer(value) == At(value, 0) # SERVER_FLAG

\* `if value[0] != CLIENT_FLAG`
InvalidFlag(value) == At(value, 0) # CLIENT_FLAG

\* The SendPixels arm. `&value[2..MAX_LED_COUNT * 3 + 2]` panics when value
\* is shorter than MAX_LED_COUNT * 3 + 2, and copy_from_slice panics when
\* pixels[..count] and that slice differ in length.
TryFromSendPixels(value) ==
    LET count == Len(value) - 2
        px == Zeros(MAX_LED_COUNT * 3)
    IN  IF Len(value) < MAX_LED_COUNT * 3 + 2 THEN Panic
        ELSE LET src == SubSeq(value, 3, MAX_LED_COUNT * 3 + 2) IN
             IF count # Len(src) THEN Panic
             ELSE Ok(SendPixels(BitAnd(At(value, 1), DEVICE_MASK),
                     [i \in 1..(MAX_LED_COUNT * 3) |->
                         IF i <= count THEN src[i] ELSE px[i]]))

\* Mutant of TryFromHello: a Hello longer than its header is refused.
TryFromHelloExact(value) ==
    IF Len(value) # 2 THEN Err("InvalidMessageLength") ELSE Ok(Hello)

\* The Hello arm.
TryFromHello(value) == Ok(Hello)

\* Mutant of TryFromSetPixel: a payload of exactly four bytes is required.
TryFromSetPixelExact(value) ==
    IF Len(value) # 6 THEN Err("InvalidMessageLength")
    ELSE Ok(SetPixel(BitAnd(At(value, 1), DEVICE_MASK),
                     At(value, 2), At(value, 3), At(value, 4), At(value, 5)))

\* Mutant of TryFromSetPixel: r and b read from each other's byte.
TryFromSetPixelSwapped(value) ==
    IF Len(value) < 6 THEN Err("InvalidMessageLength")
    ELSE Ok(SetPixel(BitAnd(At(value, 1), DEVICE_MASK),
                     At(value, 2), At(value, 5), At(value, 4), At(value, 3)))

\* The SetPixel arm.
TryFromSetPixel(value) ==
    IF Len(value) < 6 THEN Err("InvalidMessageLength")
    ELSE Ok(SetPixel(BitAnd(At(value, 1), DEVICE_MASK),
                     At(value, 2), At(value, 3), At(value, 4), At(value, 5)))

\* The SetActive arm.
TryFromSetActive(value) ==
    IF Len(value) < 2 THEN Err("InvalidMessageLength")
    ELSE Ok(SetActive(BitAnd(At(value, 1), DEVICE_MASK)))

ClientTryFrom(value) ==
    IF InvalidLength(value) THEN Err("InvalidMessageLength")
    ELSE IF InvalidFlag(value) THEN Err("InvalidFlag")
    ELSE LET ins == BitAnd(At(value, 1), INSTRUCTION_MASK) IN
         CASE ins = INSTRUCTION_HELLO -> TryFromHello(value)
           [] ins = INSTRUCTION_SET_ACTIVE -> TryFromSetActive(value)
           [] ins = INSTRUCTION_SEND_PIXELS -> TryFromSendPixels(value)
           [] ins = INSTRUCTION_SET_PIXEL -> TryFromSetPixel(value)
           [] OTHER -> Panic

(* impl Into<[u8; MAX_MESSAGE_LENGTH]> for ClientMessages *)

\* `let mut message = [0; MAX_MESSAGE_LENGTH]; message[0] = ..; message[1] = ..`
Message(flag, header) ==
    [i \in 1..MAX_MESSAGE_LENGTH |->
        IF i = 1 THEN flag ELSE IF i = 2 THEN header ELSE 0]

\* Mutant of WithPayload: the payload is written from byte 1 on.
WithPayloadFromHeader(message, bytes) ==
    [i \in 1..Len(message) |->
        IF 2 <= i /\ i <= 1 + Len(bytes) THEN bytes[i - 1] ELSE message[i]]

\* message[2..2 + Len(bytes)] = bytes
WithPayload(message, bytes) ==
    [i \in 1..Len(message) |->
        IF 3 <= i /\ i <= 2 + Len(bytes) THEN bytes[i - 2] ELSE message[i]]

ClientInto(m) ==
    CASE m.type = "Hello" -> Message(CLIENT_FLAG, INSTRUCTION_HELLO)
      [] m.type = "SetActive" ->
            Message(CLIENT_FLAG, BitOr(INSTRUCTION_SET_ACTIVE, m.device))
      [] m.type = "SendPixels" ->
            WithPayload(
                Message(CLIENT_FLAG, BitOr(INSTRUCTION_SEND_PIXELS, m.device)),
                m.pixels)
      [] m.type = "SetPixel" ->
            WithPayload(
                Message(CLIENT_FLAG, BitOr(INSTRUCTION_SET_PIXEL, m.device)),
                <<m.pixel, m.r, m.g, m.b>>)

(* udp-leds/src/server.rs *)

ServerTryFrom(value) ==
    IF Len(value) <= 2 THEN Err("InvalidMessageLength")
    ELSE IF At(value, 0) # SERVER_FLAG THEN Err("InvalidFlag")
    ELSE IF BitAnd(At(value, 1), INSTRUCTION_MASK) = INSTRUCTION_HELLO
         THEN Ok(ServerHello)
         ELSE Err("InvalidFlag")

ServerInto(m) == Message(SERVER_FLAG, INSTRUCTION_HELLO)

----
(* Inputs: the datagrams the socket can deliver and the arguments the      *)
(* constructors are called with.                                           *)

\* Device ids put on the wire: the two lowest and the highest 6-bit value.
Devices == {0, 1, DEVICE_MASK}
Instructions ==
    {INSTRUCTION_HELLO, INSTRUCTION_SET_ACTIVE,
     INSTRUCTION_SEND_PIXELS, INSTRUCTION_SET_PIXEL}
Flags == {CLIENT_FLAG, SERVER_FLAG}
\* Payload shapes <<first, step>>: all zero (what the client's encoder pads
\* with) and 1 2 3 ...
Fills == {<<0, 0>>, <<1, 1>>}
Payload(n, f) == [i \in 1..n |-> (f[1] + f[2] * (i - 1)) % 256]

\* Byte 1 of a message: every instruction with every device of Devices.
Headers == {BitOr(ins, d) : ins \in Instructions, d \in Devices}

\* The datagrams recv_from hands to the loop: at most BUF_SIZE bytes (a
\* longer datagram is cut to the buffer). With the client flag: every
\* header and every length up to the buffer; with another flag: every
\* instruction at the shortest and the longest message length. And the
\* SetPixel messages as the client encodes them.
Datagrams ==
    {<<>>}
    \cup {<<f>> : f \in Flags}
    \cup {<<CLIENT_FLAG, h>> \o Payload(n, p) :
            h \in Headers, n \in 0..(BUF_SIZE - 2), p \in Fills}
    \cup {<<SERVER_FLAG, ins>> \o Payload(n, <<1, 1>>) :
            ins \in Instructions, n \in {0, MAX_MESSAGE_LENGTH - 2}}
    \cup {ClientInto(SetPixel(d, 1, 10, 20, 30)) : d \in Devices}

----
(* wifi-ambilight-server/src/leds.rs *)

\* Leds::new
LedsNew == [i \in 1..(LED_COUNT * 3) |-> 255]

\* Leds::set: `&bytes[..{ L * 3 }]` panics when bytes is shorter than L * 3.
LedsSetPanics(bytes) == Len(bytes) < LED_COUNT * 3

\* Leds::set: pixels.copy_from_slice(&bytes[..{ L * 3 }])
LedsSet(bytes) == SubSeq(bytes, 1, LED_COUNT * 3)

\* FixedLengthSignal::new(): no pulse pair set yet.
NewSignal == [j \in 1..(LED_COUNT * 3 * 8) |-> "unset"]

\* The inner loop of to_rmt_signal on byte i of pixels, from bit on:
\*     let bit = byte & (1 << bit) != 0;
\*     let pair = if bit { one } else { zero };
\*     signal.set(i * 8 + bit as usize, &pair);
\* `bit` on the last line is the bool of the first: the index is i * 8 or
\* i * 8 + 1. FixedLengthSignal::set refuses an index past the end and its
\* Result is dropped.
RECURSIVE SetBits(_, _, _, _)
SetBits(sig, i, byte, bit) ==
    IF bit = 8 THEN sig
    ELSE LET b == BitAnd(byte, 2 ^ bit) # 0
             pair == IF b THEN "one" ELSE "zero"
             index == i * 8 + (IF b THEN 1 ELSE 0)
         IN  IF index >= Len(sig)
             THEN SetBits(sig, i, byte, bit + 1)
             ELSE SetBits([sig EXCEPT ![index + 1] = pair], i, byte, bit + 1)

\* The outer loop of to_rmt_signal over the bytes i.. of px.
RECURSIVE SignalFrom(_, _, _)
SignalFrom(sig, px, i) ==
    IF i = Len(px) THEN sig
    ELSE SignalFrom(SetBits(sig, i, At(px, i), 0), px, i + 1)

\* Leds::to_rmt_signal on a buffer that does not change meanwhile.
ToRmtSignal(px) == SignalFrom(NewSignal, px, 0)

\* Mutant of CanLock: the mutex is not taken.
CanLockAlways(l) == TRUE

\* `self.pixels.lock()` returns once no other thread holds the mutex.
CanLock(l) == l = "free"

\* Mutant of AfterSignal: the guard outlives to_rmt_signal.
AfterSignalHeld(l) == l

\* The MutexGuard of to_rmt_signal is dropped when the function returns.
AfterSignal(l) == "free"

----
(* wifi-ambilight-server/src/main.rs, the receive loop *)

is_hello(header) == BitAnd(header, INSTRUCTION_MASK) = 192

is_set_active(header) == BitAnd(header, INSTRUCTION_MASK) = 64

\* `if size < 2 || buf[0] != CLIENT_FLAG_BYTE { continue; }`
Malformed(d) == Len(d) < 2 \/ At(d, 0) # CLIENT_FLAG_BYTE

\* Mutant of HelloResp: the reply carries the flag of the datagram received.
HelloRespEcho == <<CLIENT_FLAG_BYTE, 192>>

\* `let resp = [SERVER_FLAG_BYTE, 0b1100_0000];`
HelloResp == <<SERVER_FLAG_BYTE, 192>>

\* `let device = header & DEVICE_ID_MASK;`
DeviceOf(header) == BitAnd(header, DEVICE_ID_MASK)

\* Mutant of Activate: only the first SetActive takes the register.
ActivateFirstOnly(act, header) ==
    IF is_set_active(header) /\ act = ACTIVE_INIT
    THEN DeviceOf(header) ELSE act

\* `if is_set_active(header) { active = device; }`
Activate(act, header) ==
    IF is_set_active(header) THEN DeviceOf(header) ELSE act

\* Mutant of Dropped: `>` written for `!=`.
DroppedIfHigher(device, act) == device > act

\* `if device != active { continue; }`
Dropped(device, act) == device # act

\* Mutant of Data: the slice starts at the header byte, &buf[1..size].
DataFromHeader(d) == SubSeq(d, 2, Len(d))

\* `let data = &buf[2..size];`
Data(d) == SubSeq(d, 3, Len(d))

\* One iteration of `loop { ... }` on datagram d, from the state
\* (act, pix): the new register and pixels, what was sent, and whether the
\* iteration panicked.
Iteration(act, pix, d) ==
    IF Malformed(d)
    THEN [active |-> act, pixels |-> pix, outbox |-> <<>>, rpc |-> "recv"]
    ELSE LET header == At(d, 1) IN
         IF is_hello(header)
         THEN [active |-> act, pixels |-> pix,
               outbox |-> <<HelloResp>>, rpc |-> "recv"]
         ELSE LET device == DeviceOf(header)
                  act2 == Activate(act, header)
              IN  IF Dropped(device, act2)
                  THEN [active |-> act2, pixels |-> pix,
                        outbox |-> <<>>, rpc |-> "recv"]
                  ELSE IF LedsSetPanics(Data(d))
                  THEN [active |-> act2, pixels |-> pix,
                        outbox |-> <<>>, rpc |-> "panicked"]
                  ELSE [active |-> act2, pixels |-> LedsSet(Data(d)),
                        outbox |-> <<>>, rpc |-> "recv"]

\* Wire-format reading of a datagram (client.rs:7-33), used by the history
\* variable and the properties, not by the loop.
IsClientDgram(d, ins) ==
    /\ Len(d) >= 2
    /\ At(d, 0) = CLIENT_FLAG
    /\ (At(d, 1) \div 64) * 64 = ins
DeviceBits(d) == At(d, 1) % 64

ServerInit ==
    /\ active = ACTIVE_INIT
    /\ pixels = LedsNew
    /\ buf = <<>>
    /\ outbox = <<>>
    /\ rpc = "recv"
    /\ lastSet = ACTIVE_INIT

TxInit ==
    /\ lock = "free"
    /\ ri = 0
    /\ tpc = "signal"
    /\ ti = 0
    /\ signal = NewSignal
    /\ lastWrite = LedsNew
    /\ snap = LedsNew
    /\ pending = 0
    /\ coalesced = 0

CodecIdle ==
    /\ cpc = "idle"
    /\ call = [fn |-> "none"]
    /\ msg = [tag |-> "None"]
    /\ wire = <<>>
    /\ res = [tag |-> "None"]

\* recv_from returns a datagram and the loop body runs on it.
RecvLoop ==
    /\ rpc = "recv"
    /\ \E d \in Datagrams :
         LET it == Iteration(active, pixels, d) IN
         /\ buf' = d
         /\ active' = it.active
         /\ pixels' = it.pixels
         /\ outbox' = it.outbox
         /\ rpc' = it.rpc
         /\ lastSet' = IF IsClientDgram(d, INSTRUCTION_SET_ACTIVE)
                       THEN DeviceBits(d) ELSE lastSet
         /\ lastWrite' = it.pixels
    /\ UNCHANGED <<lock, ri, tpc, ti, signal, snap, pending, coalesced>>
    /\ UNCHANGED codecVars

Init == ServerInit /\ TxInit /\ CodecIdle
Next == RecvLoop
Spec == Init /\ [][Next]_vars

----
(* The two threads of the server: the receive loop of main and             *)
(* led_update_loop, sharing Leds.pixels under its mutex. Leds::set and     *)
(* to_rmt_signal go through the buffer one byte per step.                  *)

\* The datagrams of this specification: what the client encodes (Hello,
\* SetActive, SendPixels of the active and of another device, SetPixel) and
\* a SetActive of two bytes.
TxDatagrams ==
    {ClientInto(Hello),
     ClientInto(SetActive(0)),
     ClientInto(SendPixels(0, Payload(MAX_LED_COUNT * 3, <<1, 1>>))),
     ClientInto(SendPixels(0, Payload(MAX_LED_COUNT * 3, <<255, 0>>))),
     ClientInto(SendPixels(1, Payload(MAX_LED_COUNT * 3, <<1, 1>>))),
     ClientInto(SetPixel(0, 1, 10, 20, 30)),
     <<CLIENT_FLAG, INSTRUCTION_SET_ACTIVE>>}

\* The process runs until a panic of the main thread ends it.
Alive == rpc # "panicked"

\* The iteration on d gets to `leds.set(data)`.
ReachesSet(act, d) ==
    /\ ~Malformed(d)
    /\ ~is_hello(At(d, 1))
    /\ ~Dropped(DeviceOf(At(d, 1)), Activate(act, At(d, 1)))

\* recv_from returns a datagram; the loop body runs up to `continue` or to
\* the call of leds.set.
RxRecv ==
    /\ rpc = "recv"
    /\ \E d \in TxDatagrams :
         LET it == Iteration(active, pixels, d) IN
         /\ buf' = d
         /\ active' = it.active
         /\ outbox' = it.outbox
         /\ rpc' = IF ReachesSet(active, d) THEN "set" ELSE it.rpc
         /\ lastSet' = IF IsClientDgram(d, INSTRUCTION_SET_ACTIVE)
                       THEN DeviceBits(d) ELSE lastSet
    /\ UNCHANGED <<pixels, txVars, codecVars>>

\* Leds::set: `self.pixels.lock().unwrap()`, then `&bytes[..{ L * 3 }]`,
\* which panics on a short slice.
RxLock ==
    /\ rpc = "set"
    /\ CanLock(lock)
    /\ IF LedsSetPanics(Data(buf))
       THEN /\ rpc' = "panicked"
            /\ UNCHANGED <<lock, ri>>
       ELSE /\ rpc' = "copy"
            /\ lock' = "rx"
            /\ ri' = 0
    /\ UNCHANGED <<active, pixels, buf, outbox, lastSet, tpc, ti, signal,
                   lastWrite, snap, pending, coalesced, codecVars>>

\* Leds::set: copy_from_slice, one byte.
RxCopy ==
    /\ rpc = "copy"
    /\ ri < LED_COUNT * 3
    /\ pixels' = [pixels EXCEPT ![ri + 1] = At(LedsSet(Data(buf)), ri)]
    /\ ri' = ri + 1
    /\ UNCHANGED <<active, buf, outbox, rpc, lastSet, lock, tpc, ti, signal,
                   lastWrite, snap, pending, coalesced, codecVars>>

\* Leds::set returns, its guard is dropped, and the loop is back in recv_from.
RxUnlock ==
    /\ rpc = "copy"
    /\ ri = LED_COUNT * 3
    /\ lock' = "free"
    /\ rpc' = "recv"
    /\ lastWrite' = LedsSet(Data(buf))
    /\ pending' = IF pending < 2 THEN pending + 1 ELSE pending
    /\ UNCHANGED <<active, pixels, buf, outbox, lastSet, ri, tpc, ti, signal,
                   snap, coalesced, codecVars>>

\* to_rmt_signal: FixedLengthSignal::new(), then `self.pixels.lock()`.
TxLock ==
    /\ Alive
    /\ tpc = "signal"
    /\ CanLock(lock)
    /\ lock' = "tx"
    /\ tpc' = "encode"
    /\ ti' = 0
    /\ signal' = NewSignal
    /\ snap' = lastWrite
    /\ coalesced' = pending
    /\ pending' = 0
    /\ UNCHANGED <<active, pixels, buf, outbox, rpc, lastSet, ri, lastWrite,
                   codecVars>>

\* to_rmt_signal: one turn of `for (i, byte) in pixels.iter().enumerate()`.
TxEncode ==
    /\ Alive
    /\ tpc = "encode"
    /\ ti < LED_COUNT * 3
    /\ signal' = SetBits(signal, ti, At(pixels, ti), 0)
    /\ ti' = ti + 1
    /\ UNCHANGED <<active, pixels, buf, outbox, rpc, lastSet, lock, ri, tpc,
                   lastWrite, snap, pending, coalesced, codecVars>>

\* to_rmt_signal returns the signal.
TxUnlock ==
    /\ Alive
    /\ tpc = "encode"
    /\ ti = LED_COUNT * 3
    /\ lock' = AfterSignal(lock)
    /\ tpc' = "transmit"
    /\ UNCHANGED <<active, pixels, buf, outbox, rpc, lastSet, ri, ti, signal,
                   lastWrite, snap, pending, coalesced, codecVars>>

\* `rmt.start_blocking(&signal)` has sent the frame and returns.
TxTransmit ==
    /\ Alive
    /\ tpc = "transmit"
    /\ tpc' = "sleep"
    /\ UNCHANGED <<active, pixels, buf, outbox, rpc, lastSet, lock, ri, ti,
                   signal, lastWrite, snap, pending, coalesced, codecVars>>

\* `std::thread::sleep(Duration::from_millis(1000))` is over.
TxSleep ==
    /\ Alive
    /\ tpc = "sleep"
    /\ tpc' = "signal"
    /\ UNCHANGED <<active, pixels, buf, outbox, rpc, lastSet, lock, ri, ti,
                   signal, lastWrite, snap, pending, coalesced, codecVars>>

TxNext ==
    \/ RxRecv \/ RxLock \/ RxCopy \/ RxUnlock
    \/ TxLock \/ TxEncode \/ TxUnlock \/ TxTransmit \/ TxSleep
TxSpec == Init /\ [][TxNext]_vars

\* Fair scheduling of the two threads: a thread that can take a step takes
\* it, and a thread waiting in lock() gets the mutex if it is free again and
\* again. Nothing makes a datagram arrive: RxRecv carries no fairness.
TxFairness ==
    /\ SF_vars(RxLock) /\ WF_vars(RxCopy) /\ WF_vars(RxUnlock)
    /\ SF_vars(TxLock) /\ WF_vars(TxEncode) /\ WF_vars(TxUnlock)
    /\ WF_vars(TxTransmit) /\ WF_vars(TxSleep)
TxFairSpec == TxSpec /\ TxFairness

----
(* The codec on its own: a constructor call, into(), try_from(); and       *)
(* try_from() on an arbitrary slice.                                       *)

\* Device ids given to the constructors: in range, the two highest 6-bit
\* values, and the first value past 6 bits.
CtorDevices == {0, 1, DEVICE_MASK - 1, DEVICE_MASK, DEVICE_MASK + 1}
PixelArrays == {Payload(MAX_LED_COUNT * 3, p) : p \in Fills \cup {<<250, 3>>}}
Colours == {<<0, 0, 0>>, <<10, 20, 30>>, <<255, 255, 255>>}
PixelIndexes == {0, 5, 255}

\* Slices given to ClientMessages::try_from: the datagrams of the receive
\* loop, every header under a foreign flag, and slices past the longest
\* message.
Slices ==
    Datagrams
    \cup {<<f, h>> \o Payload(n, <<1, 1>>) :
            f \in {SERVER_FLAG, 0}, h \in Headers,
            n \in {0, 4, MAX_MESSAGE_LENGTH - 2}}
    \cup {<<f, h>> \o Payload(n, <<0, 0>>) :
            f \in Flags, h \in Headers,
            n \in {MAX_MESSAGE_LENGTH - 1, MAX_MESSAGE_LENGTH + 5}}

\* The constructor calls made: hello(), ServerMessages::hello(), and the
\* three constructors that take a device id.
Calls ==
    {[fn |-> "hello"], [fn |-> "server_hello"]}
    \cup {[fn |-> "set_active", device |-> d] : d \in CtorDevices}
    \cup {[fn |-> "send_pixels", device |-> d, pixels |-> px] :
            d \in CtorDevices, px \in PixelArrays}
    \cup {[fn |-> "set_pixel", device |-> d, pixel |-> i,
           r |-> c[1], g |-> c[2], b |-> c[3]] :
            d \in CtorDevices, i \in PixelIndexes, c \in Colours}

\* What the call returns.
Return(c) ==
    CASE c.fn = "hello" -> hello
      [] c.fn = "server_hello" -> server_hello
      [] c.fn = "set_active" -> set_active(c.device)
      [] c.fn = "send_pixels" -> send_pixels(c.device, c.pixels)
      [] c.fn = "set_pixel" -> set_pixel(c.device, c.pixel, c.r, c.g, c.b)

\* A constructor is called.
Build ==
    /\ cpc = "idle"
    /\ \E c \in Calls :
         /\ call' = c
         /\ msg' = Return(c)
    /\ cpc' = "built"
    /\ UNCHANGED <<wire, res>>
    /\ UNCHANGED serverVars

\* message.into()
Encode ==
    /\ cpc = "built"
    /\ msg.tag = "Ok"
    /\ wire' = IF msg.msg.type = "ServerHello"
               THEN ServerInto(msg.msg) ELSE ClientInto(msg.msg)
    /\ cpc' = "encoded"
    /\ UNCHANGED <<call, msg, res>>
    /\ UNCHANGED serverVars

\* try_from(&bytes[..]) on the encoded message
Decode ==
    /\ cpc = "encoded"
    /\ res' = IF msg.msg.type = "ServerHello"
              THEN ServerTryFrom(wire) ELSE ClientTryFrom(wire)
    /\ cpc' = "decoded"
    /\ UNCHANGED <<call, msg, wire>>
    /\ UNCHANGED serverVars

\* ClientMessages::try_from on a slice from the network
DecodeSlice ==
    /\ cpc = "idle"
    /\ \E v \in Slices :
         /\ wire' = v
         /\ res' = ClientTryFrom(v)
    /\ cpc' = "sliced"
    /\ UNCHANGED <<call, msg>>
    /\ UNCHANGED serverVars

\* Slices given to ServerMessages::try_from: the reply of the receive loop
\* as sent, the same reply at the head of the client's zeroed receive
\* buffer (cmd-client main.rs:17, 40-41), and every slice of Slices.
ReplySlices ==
    Slices \cup {HelloResp, HelloResp \o Zeros(MAX_MESSAGE_LENGTH - 2)}

\* ServerMessages::try_from on a slice from the network
DecodeReply ==
    /\ cpc = "idle"
    /\ \E v \in ReplySlices :
         /\ wire' = v
         /\ res' = ServerTryFrom(v)
    /\ cpc' = "reply"
    /\ UNCHANGED <<call, msg>>
    /\ UNCHANGED serverVars

CodecNext == Build \/ Encode \/ Decode \/ DecodeSlice \/ DecodeReply
CodecSpec == Init /\ [][CodecNext]_vars

----
(* Properties of the receive loop (checked under Spec) *)

IsWriteDgram(d) ==
    \/ IsClientDgram(d, INSTRUCTION_SEND_PIXELS)
    \/ IsClientDgram(d, INSTRUCTION_SET_PIXEL)

\* C1: processing a SendPixels or SetPixel datagram whose device bits differ
\* from the active-device register leaves the pixel buffer and the register
\* unchanged, sends nothing, and the loop goes on.
C1_MismatchedWriteDropped ==
    [][(IsWriteDgram(buf') /\ DeviceBits(buf') # active)
         => /\ pixels' = pixels
            /\ active' = active
            /\ outbox' = <<>>
            /\ rpc' = "recv"]_vars

\* A write from device 1 was dropped while another device is active and the
\* buffer already holds that device's frame.
C1_Witness ==
    /\ IsWriteDgram(buf)
    /\ Len(buf) = MAX_MESSAGE_LENGTH
    /\ active \in 0..63
    /\ DeviceBits(buf) # active
    /\ pixels # LedsNew
    /\ rpc = "recv"

\* C2: the register always equals the device bits of the most recently
\* received SetActive datagram, or the initial sentinel when none was
\* received; no other datagram changes it.
C2_RegisterIsLastSetActive == active = lastSet

\* Device 1 activated itself and a datagram of another device was processed
\* afterwards.
C2_Witness ==
    /\ lastSet = 1
    /\ active = 1
    /\ IsWriteDgram(buf)
    /\ DeviceBits(buf) = 0

\* C3: the register starts outside 0..63, and until a SetActive datagram is
\* received the pixel buffer keeps its initial value, every byte 255.
C3_NoWriteBeforeActivation ==
    lastSet = ACTIVE_INIT
        => /\ active \notin 0..63
           /\ pixels = [i \in 1..(LED_COUNT * 3) |-> 255]

\* A full-size SendPixels of the highest device id was processed before any
\* SetActive.
C3_Witness ==
    /\ lastSet = ACTIVE_INIT
    /\ IsClientDgram(buf, INSTRUCTION_SEND_PIXELS)
    /\ Len(buf) = MAX_MESSAGE_LENGTH
    /\ DeviceBits(buf) = 63

\* C4: once SetActive(d) was the last SetActive, a full-size SendPixels of
\* device d replaces the whole pixel buffer: buffer byte i is payload byte i
\* for every i below LED_COUNT * 3.
C4_SendPixelsReplacesBuffer ==
    (/\ IsClientDgram(buf, INSTRUCTION_SEND_PIXELS)
     /\ Len(buf) = MAX_MESSAGE_LENGTH
     /\ DeviceBits(buf) = lastSet)
        => /\ rpc = "recv"
           /\ \A i \in 0..(LED_COUNT * 3 - 1) : At(pixels, i) = At(buf, 2 + i)

\* The active device sent a full frame 1 2 3 ...
C4_Witness ==
    /\ IsClientDgram(buf, INSTRUCTION_SEND_PIXELS)
    /\ Len(buf) = MAX_MESSAGE_LENGTH
    /\ DeviceBits(buf) = lastSet
    /\ At(buf, 2) = 1
    /\ At(pixels, 0) = 1

\* The buffer after SetPixel(index, r, g, b) as the wire format documents it:
\* only the three bytes of LED `index` change.
Patched(px, index, r, g, b) ==
    [i \in 1..Len(px) |->
        IF i = 3 * index + 1 THEN r
        ELSE IF i = 3 * index + 2 THEN g
        ELSE IF i = 3 * index + 3 THEN b
        ELSE px[i]]

\* C5: with device d active, processing SetPixel(d, index, r, g, b) changes
\* only the three buffer bytes of LED `index`, to r, g, b; every other byte
\* keeps its value.
C5_SetPixelPatchesOneLed ==
    [][(/\ IsClientDgram(buf', INSTRUCTION_SET_PIXEL)
        /\ Len(buf') = MAX_MESSAGE_LENGTH
        /\ buf' = ClientInto(SetPixel(DeviceBits(buf'), At(buf', 2),
                                      At(buf', 3), At(buf', 4), At(buf', 5)))
        /\ DeviceBits(buf') = active
        /\ At(buf', 2) < LED_COUNT)
         => pixels' = Patched(pixels, At(buf', 2), At(buf', 3),
                              At(buf', 4), At(buf', 5))]_vars

\* C7: whatever the datagram, the iteration finishes and the loop is back in
\* recv_from.
C7_ReceiveLoopNeverAborts == rpc = "recv"

----
(* Properties of the codec (checked under CodecSpec) *)

InstructionBits(d) == (At(d, 1) \div 64) * 64

\* C6: a SendPixels message with n payload bytes, 0 <= n <= 3 * MAX_LED_COUNT,
\* decodes to a full-size pixel array: the payload followed by zeros.
C6_ShortSendPixelsZeroFilled ==
    (/\ cpc = "sliced"
     /\ IsClientDgram(wire, INSTRUCTION_SEND_PIXELS)
     /\ Len(wire) <= MAX_MESSAGE_LENGTH)
        => /\ res.tag = "Ok"
           /\ res.msg = SendPixels(DeviceBits(wire),
                            [i \in 1..(MAX_LED_COUNT * 3) |->
                                IF i <= Len(wire) - 2 THEN wire[i + 2] ELSE 0])

\* C8: decoding the buffer produced by encoding a constructed message gives
\* the message back.
C8_RoundTrip ==
    cpc = "decoded" => (res.tag = "Ok" /\ res.msg = msg.msg)

\* send_pixels(62, 250 253 0 3 ...) went through into() and try_from().
C8_Witness ==
    /\ cpc = "decoded"
    /\ msg.tag = "Ok"
    /\ msg.msg.type = "SendPixels"
    /\ msg.msg.device = 62
    /\ msg.msg.pixels[1] = 250
    /\ Len(wire) = MAX_MESSAGE_LENGTH

IsInvalidMessageLength(r) ==
    r.tag = "Err" /\ r.err = "InvalidMessageLength"

C10_WrongFlag ==
    (/\ cpc = "sliced"
     /\ Len(wire) \in 2..MAX_MESSAGE_LENGTH
     /\ At(wire, 0) # CLIENT_FLAG)
        => (res.tag = "Err" /\ res.err = "InvalidFlag")

\* A two-byte SetPixel header of device 63 under the server's flag.
C10_Witness ==
    /\ cpc = "sliced"
    /\ wire = <<SERVER_FLAG, 191>>
    /\ res.tag = "Err"
    /\ res.err = "InvalidFlag"


C12_HelloSetActiveExactlyTwoBytes ==
    (/\ cpc = "sliced"
     /\ \/ IsClientDgram(wire, INSTRUCTION_HELLO)
        \/ IsClientDgram(wire, INSTRUCTION_SET_ACTIVE)
     /\ Len(wire) \in 3..MAX_MESSAGE_LENGTH)
        => IsInvalidMessageLength(res)

\* The SetPixel message the wire format places in bytes 1..5 of a slice.
SetPixelOf(d) ==
    SetPixel(DeviceBits(d), At(d, 2), At(d, 3), At(d, 4), At(d, 5))

\* C13 as claimed: a SetPixel header decodes only when exactly 4 payload
\* bytes follow it, to SetPixel(device, index, r, g, b); with fewer it is
\* refused with InvalidMessageLength.
C13_SetPixelExactlyFour ==
    (/\ cpc = "sliced"
     /\ IsClientDgram(wire, INSTRUCTION_SET_PIXEL)
     /\ Len(wire) <= MAX_MESSAGE_LENGTH)
        => /\ res.tag = "Ok" <=> Len(wire) = 6
           /\ Len(wire) = 6 => res.msg = SetPixelOf(wire)
           /\ Len(wire) < 6 => IsInvalidMessageLength(res)

\* C13 as amended: a SetPixel header decodes when at least 4 payload bytes
\* follow it, to SetPixel(device, index, r, g, b) read from bytes 1..5 (the
\* bytes after them are ignored); with fewer it is refused with
\* InvalidMessageLength.
C13_SetPixelAtLeastFour ==
    (/\ cpc = "sliced"
     /\ IsClientDgram(wire, INSTRUCTION_SET_PIXEL)
     /\ Len(wire) <= MAX_MESSAGE_LENGTH)
        => /\ Len(wire) >= 6 => (res.tag = "Ok" /\ res.msg = SetPixelOf(wire))
           /\ Len(wire) < 6 => IsInvalidMessageLength(res)

\* The SetPixel message as the client encodes it, at full size, decoded.
C13_Witness ==
    /\ cpc = "sliced"
    /\ wire = ClientInto(SetPixel(1, 1, 10, 20, 30))
    /\ Len(wire) > 6
    /\ res.tag = "Ok"
    /\ res.msg = SetPixel(1, 1, 10, 20, 30)


\* C14: set_active, send_pixels and set_pixel accept every device id of
\* 0..63 and store it unchanged, and reject every device id of 64 or more.
C14_ConstructorsAcceptSixBits ==
    (cpc = "built" /\ call.fn \in {"set_active", "send_pixels", "set_pixel"})
        => /\ call.device \in 0..63
                => (msg.tag = "Ok" /\ msg.msg.device = call.device)
           /\ call.device >= 64 => msg.tag = "Panic"

\* The instruction code of each variant (client.rs:15-33).
CodeOf(type) ==
    CASE type = "Hello" -> 3
      [] type = "SetActive" -> 1
      [] type = "SendPixels" -> 0
      [] type = "SetPixel" -> 2

\* The payload of each variant (client.rs:15-33).
PayloadOf(m) ==
    CASE m.type = "Hello" -> <<>>
      [] m.type = "SetActive" -> <<>>
      [] m.type = "SendPixels" -> m.pixels
      [] m.type = "SetPixel" -> <<m.pixel, m.r, m.g, m.b>>

\* C15: encoding a constructed client message yields MAX_MESSAGE_LENGTH
\* bytes: byte 0 the client flag, the top 2 bits of byte 1 the instruction
\* code, its low 6 bits the device id (0 for Hello), the payload from byte 2
\* on, and 0 in every byte after the payload.
C15_EncodedLayout ==
    (cpc = "encoded" /\ msg.msg.type # "ServerHello")
        => LET m == msg.msg
               pl == PayloadOf(m)
           IN  /\ Len(wire) = MAX_MESSAGE_LENGTH
               /\ At(wire, 0) = CLIENT_FLAG
               /\ At(wire, 1) \div 64 = CodeOf(m.type)
               /\ At(wire, 1) % 64 = (IF m.type = "Hello" THEN 0 ELSE m.device)
               /\ \A i \in 0..(Len(pl) - 1) : At(wire, 2 + i) = At(pl, i)
               /\ \A i \in (2 + Len(pl))..(MAX_MESSAGE_LENGTH - 1) :
                    At(wire, i) = 0

\* set_pixel(62, 5, 10, 20, 30) encoded: a payload of four bytes, then zeros.
C15_Witness ==
    /\ cpc = "encoded"
    /\ call = [fn |-> "set_pixel", device |-> 62, pixel |-> 5,
               r |-> 10, g |-> 20, b |-> 30]
    /\ At(wire, 1) = 190
    /\ At(wire, 5) = 30
    /\ At(wire, MAX_MESSAGE_LENGTH - 1) = 0


----
(* Discovery: the reply to Hello (Spec) and its decoding (CodecSpec) *)

\* C17: for every client Hello datagram the loop sends exactly one reply,
\* the two bytes [server flag, Hello code], and changes neither the register
\* nor the pixel buffer; for every other datagram it sends nothing.
C17_HelloReply ==
    [][IF IsClientDgram(buf', INSTRUCTION_HELLO)
       THEN /\ outbox' = << <<SERVER_FLAG, INSTRUCTION_HELLO>> >>
            /\ active' = active
            /\ pixels' = pixels
            /\ rpc' = "recv"
       ELSE outbox' = <<>>]_vars

\* A Hello was answered while a device is active and has written a frame.
C17_Witness ==
    /\ IsClientDgram(buf, INSTRUCTION_HELLO)
    /\ outbox = << <<SERVER_FLAG, INSTRUCTION_HELLO>> >>
    /\ active \in 0..63
    /\ pixels # LedsNew

\* C18: ServerMessages::try_from returns InvalidMessageLength only for
\* slices shorter than 2 bytes or longer than MAX_MESSAGE_LENGTH, so the
\* two-byte reply [server flag, Hello code] decodes to ServerMessages::Hello.
C18_ReplyDecodes ==
    cpc = "reply"
        => /\ IsInvalidMessageLength(res)
                => (Len(wire) < 2 \/ Len(wire) > MAX_MESSAGE_LENGTH)
           /\ wire = <<SERVER_FLAG, INSTRUCTION_HELLO>>
                => (res.tag = "Ok" /\ res.msg = ServerHello)


----
(* Properties of the transmit loop (checked under TxSpec) *)

\* Bit k of a byte.
BitOf(byte, k) == (byte \div (2 ^ k)) % 2

\* C16: the frame has LED_COUNT * 3 * 8 pulse pairs and is the
\* least-significant-bit-first encoding of the buffer: the pair at i * 8 + k
\* is the 'one' pair if bit k of byte i is set and the 'zero' pair otherwise.
C16_SignalIsLsbFirst ==
    tpc = "transmit"
        => /\ Len(signal) = LED_COUNT * 3 * 8
           /\ \A i \in 0..(LED_COUNT * 3 - 1), k \in 0..7 :
                At(signal, i * 8 + k) =
                    (IF BitOf(At(snap, i), k) = 1 THEN "one" ELSE "zero")

\* C19: each frame handed to the transmitter is the signal of the buffer as
\* one completed write left it (or as Leds::new did), namely the last one
\* completed before to_rmt_signal took the lock.
C19_FrameIsOneSnapshot ==
    tpc = "transmit" => signal = ToRmtSignal(snap)

\* Two writes or more were completed between two snapshots, the last one a
\* frame 1 2 3 ..., and the frame being transmitted is that of 1 2 3 ...
C19_Witness ==
    /\ tpc = "transmit"
    /\ coalesced = 2
    /\ snap = Payload(LED_COUNT * 3, <<1, 1>>)
    /\ signal = ToRmtSignal(snap)

\* C20: while led_update_loop is in start_blocking or in its sleep it does
\* not hold the mutex.
C20_NoLockWhileTransmitting ==
    tpc \in {"transmit", "sleep"} => lock # "tx"

\* Leds::set holds the mutex and copies while the frame is being transmitted.
C20_Witness ==
    /\ tpc = "transmit"
    /\ lock = "rx"
    /\ rpc = "copy"
    /\ ri > 0


----
(* Liveness of the transmit loop (checked under TxFairSpec) *)

\* The buffers a completed Leds::set can leave.
WrittenBuffers ==
    {LedsSet(Data(d)) : d \in {e \in TxDatagrams : ~LedsSetPanics(Data(e))}}

\* The frame of buffer w is in start_blocking.
Transmitting(w) ==
    tpc = "transmit" /\ snap = w /\ signal = ToRmtSignal(w)

\* C21: under fair scheduling the transmit loop cycles forever, and a
\* completed write that left the buffer w and is followed by no further
\* write leads to a frame encoding w being handed to the transmitter.
C21_WriteEventuallyTransmitted ==
    /\ []<>(tpc = "transmit")
    /\ []<>(tpc = "sleep")
    /\ \A w \in WrittenBuffers :
         (pending > 0 /\ lastWrite = w) ~> (Transmitting(w) \/ rpc = "copy")


----
(* Effect of SetActive and of rejected datagrams (checked under Spec) *)

\* The datagram is the encoding of a SetActive the client can construct.
IsEncodedSetActive(d) ==
    \E device \in Devices :
        DeviceAccepted(device) /\ d = ClientInto(SetActive(device))

\* C22: processing a SetActive datagram leaves the pixel buffer byte for
\* byte as it was.
C22_SetActiveKeepsBuffer ==
    [][IsEncodedSetActive(buf') => pixels' = pixels]_vars

\* What the decode contract rejects: fewer than 2 bytes, more than
\* 2 + 3 * MAX_LED_COUNT bytes, another role flag, or a SetPixel with fewer
\* than 4 payload bytes.
Rejected(d) ==
    \/ Len(d) < 2
    \/ Len(d) > MAX_MESSAGE_LENGTH
    \/ At(d, 0) # CLIENT_FLAG
    \/ (IsClientDgram(d, INSTRUCTION_SET_PIXEL) /\ Len(d) < 2 + 4)

\* C23: a datagram the decode contract rejects is skipped by the receive
\* loop: the active-device register and the pixel buffer are unchanged by
\* it and the loop goes on.
C23_RejectedSkipped ==
    [][Rejected(buf')
         => /\ active' = active
            /\ pixels' = pixels
            /\ rpc' = "recv"]_vars

====
